---- MODULE Spec2Model ----
(***************************************************************************)
(* A model of yt_dlp_plugins/extractor/appledeveloper.py: the WWDC JSON    *)
(* catalog parser (WwdcJsonParser) with the listing extractors that own    *)
(* it, the link harvester (extract_with_regular_expression) and the        *)
(* single-video resolver (AppleDeveloperIE._real_extract).                 *)
(*                                                                         *)
(* Python values are encoded as follows.  A str is a TLA+ string; None and *)
(* a bound method object, where they flow into a str position, are the     *)
(* reserved strings PyNone and PlaylistIdMethod, which no slug or title    *)
(* of a document equals.  A dict whose keys vary is a function whose       *)
(* DOMAIN is its key set.  A value that is a list or None is an Option     *)
(* record [none, val].  A raised exception is a result record of kind      *)
(* "raise".  A datetime is the integer instant it denotes, so that `>` on  *)
(* datetimes is `>` on integers.                                           *)
(***************************************************************************)
EXTENDS Integers, Sequences, FiniteSets, TLC

\* --------------------------------------------------------------- bounds
MaxTopics == 2
MaxVideos == 2
MaxFetches == 2
MaxMatches == 3
MaxFormats == 2

\* ------------------------------------------------------- python values
PyNone == "<None>"
PlaylistIdMethod == "<bound method AppleWwdcTopicsIE.playlist_id>"

Truthy(x) == x \notin {PyNone, ""}

RetNone == [none |-> TRUE, val |-> <<>>]
Ret(x) == [none |-> FALSE, val |-> x]

Raise(exc) == [kind |-> "raise", exc |-> exc]

\* datetime.datetime(datetime.MINYEAR, 1, 1, tzinfo=utc)
MinDate == 0

VARIABLES
  data,          \* the JSON feed at _WWDC_DATA_SOURCE, as json_loads returns it
  ieKind,        \* the class of the listing extractor instance
  jsonParser,    \* _AppleWwdcBaseIE._jsonParser: <<>> is None, <<p>> a parser
  fetches,       \* downloads of _WWDC_DATA_SOURCE made by the instance
  constructed,   \* WwdcJsonParser objects the instance has constructed
  builderCalls,  \* per topic position: video ids handed to _make_video_entry
  result,        \* what the last _real_extract returned or raised
  webpage,       \* link harvester: the pattern's captures, in page order
  harvested,     \* link harvester: the entries returned, as an Option
  og_video,      \* resolver: the page's og:video content, or PyNone
  m3u8,          \* resolver: what the manifest parser returns for the page
  manifestCalls, \* resolver: manifest urls handed to the manifest parser
  videoResult    \* resolver: what _real_extract returned or raised

catalogVars == <<data, ieKind, jsonParser, fetches, constructed, builderCalls,
                 result>>
harvestVars == <<webpage, harvested>>
resolverVars == <<og_video, m3u8, manifestCalls, videoResult>>
vars == <<catalogVars, harvestVars, resolverVars>>

NoResult == [kind |-> "none"]

\* ------------------------------------------------------ the feed document
EventKeys == {"wwdc23", "wwdc24"}
\* The instants startTime denotes: two events are at the same or at two.
Instants == {1, 2}
TopicIds == {"t1", "t2"}
SlugNames == {"swiftui"}
MissingSlug == "audio-video"

\* One value of data['events']: its key in the mapping and its fields.
EventRecords ==
  { [key |-> k, startTime |-> t,
     name |-> <<"name of", k>>, imagesPath |-> <<"images of", k>>]
    : k \in EventKeys, t \in Instants }

\* webPermalink as the path segments of the link.
Permalinks == {<<>>} \cup { <<"topics", s>> : s \in SlugNames }

TitleOf(i) == IF i = "t1" THEN "SwiftUI & UI Frameworks" ELSE "Audio & Video"

TopicRecords ==
  { [id |-> i, webPermalink |-> p, title |-> TitleOf(i)]
    : i \in TopicIds, p \in Permalinks }

VideoRecords(n) ==
  { [id |-> n, eventId |-> e, primaryTopicID |-> t]
    : e \in EventKeys, t \in TopicIds }

SeqsUpTo(S, n) == UNION { [1..k -> S] : k \in 0..n }

\* A mapping iterates its values in document order and its keys are distinct.
EventMappings ==
  { es \in SeqsUpTo(EventRecords, Cardinality(EventKeys)) :
      \A i, j \in 1..Len(es) : es[i].key = es[j].key => i = j }

TopicMappings == SeqsUpTo(TopicRecords, MaxTopics)

VideoMappings ==
  UNION { { vs \in [1..k -> UNION { VideoRecords(n) : n \in 1..k }] :
              \A i \in 1..k : vs[i].id = i } : k \in 0..MaxVideos }

Documents ==
  { [events |-> es, topics |-> ts, videos |-> vs]
    : es \in EventMappings, ts \in TopicMappings, vs \in VideoMappings }

\* yt_dlp.utils.url_basename: the last segment of the url's path.
url_basename(permalink) ==
  IF Len(permalink) = 0 THEN "" ELSE permalink[Len(permalink)]

\* ------------------------------------------------------- WwdcJsonParser
\* The for loop of _get_latest_event: (latest_event, latest_date) after the
\* whole mapping was iterated; latest_event is <<>> while it is still None.
_latest_event_loop(events) ==
  LET after[i \in 0..Len(events)] ==
        IF i = 0 THEN [latest_event |-> <<>>, latest_date |-> MinDate]
        ELSE IF events[i].startTime > after[i-1].latest_date
             THEN [latest_event |-> <<events[i]>>,
                   latest_date |-> events[i].startTime]
             ELSE after[i-1]
  IN after[Len(events)]

\* The return statement reads event_id, the loop variable: after the loop it
\* is the key iterated last, and it is unbound when the mapping is empty.
_get_latest_event(d) ==
  LET loop == _latest_event_loop(d.events)
      event_id == d.events[Len(d.events)].key
  IN IF Len(d.events) = 0 THEN Raise("UnboundLocalError")
     ELSE IF loop.latest_event = <<>> THEN Raise("AttributeError")
     ELSE [kind |-> "return",
           val |-> [id |-> event_id,
                    name |-> loop.latest_event[1].name,
                    images_base |-> loop.latest_event[1].imagesPath]]

_get_topics(d) ==
  [i \in 1..Len(d.topics) |->
     [id |-> d.topics[i].id,
      slug |-> url_basename(d.topics[i].webPermalink),
      title |-> d.topics[i].title,
      videos |-> <<>>]]

\* WwdcJsonParser.__init__; oid is the identity of the object created.
WwdcJsonParser(d, oid) ==
  LET ev == _get_latest_event(d)
  IN IF ev.kind = "raise" THEN ev
     ELSE [kind |-> "return",
           val |-> [oid |-> oid, _event |-> ev.val, _topics |-> _get_topics(d)]]

_make_thumbnail_url(p, content_id) ==
  <<p._event.images_base, content_id, content_id, "_wide_250x141_2x.jpg">>

\* The MediaEntry of one raw video; formats and subtitles are what the
\* manifest parser returns for the video's downloadHLS and id.
_make_video_entry(p, video_data, topic_title) ==
  [id |-> video_data.id,
   title |-> <<video_data.id, p._event.name, "Videos", "Apple Developer">>,
   formats |-> <<"formats of", video_data.id>>,
   subtitles |-> <<"subtitles of", video_data.id>>,
   categories |-> <<p._event.name, topic_title>>,
   thumbnail |-> _make_thumbnail_url(p, video_data.id)]

_get_videos(p, d, event_id, topic_id, topic_title) ==
  LET vs == d.videos
      videos[i \in 0..Len(vs)] ==
        IF i = 0 THEN <<>>
        ELSE IF vs[i].eventId = event_id /\ vs[i].primaryTopicID = topic_id
             THEN Append(videos[i-1], _make_video_entry(p, vs[i], topic_title))
             ELSE videos[i-1]
  IN videos[Len(vs)]

\* What `for topic in topics` of _parse_videos iterates over: the dict at a
\* position of self._topics, or the self._topics list object itself.
TopicDict(i) == [obj |-> "dict", at |-> i]
TopicsList == [obj |-> "list", at |-> 0]

\* _parse_videos(topics): the parser's topics afterwards, the exception that
\* stopped it (<<>> when none) and the _make_video_entry calls it made.
\* A list has no .get, so topic.get('videos') raises on the list object.
_parse_videos(p, d, topics) ==
  LET after[n \in 0..Len(topics)] ==
        IF n = 0 THEN [_topics |-> p._topics, exc |-> <<>>, built |-> <<>>]
        ELSE LET prev == after[n-1]
                 topic == topics[n]
             IN IF prev.exc # <<>> THEN prev
                ELSE IF topic.obj # "dict"
                     THEN [prev EXCEPT !.exc = <<"AttributeError">>]
                ELSE LET t == prev._topics[topic.at]
                         found == _get_videos(p, d, p._event.id, t.id, t.title)
                     IN IF Len(t.videos) = 0
                        THEN [_topics |-> [prev._topics EXCEPT
                                             ![topic.at].videos = found],
                              exc |-> <<>>,
                              built |-> prev.built \o
                                [k \in 1..Len(found) |->
                                   [topic |-> topic.at, video |-> found[k].id]]]
                        ELSE prev
  IN after[Len(topics)]

\* The position of the first topic of ts whose slug equals x, 0 when none.
FirstWithSlug(ts, x) ==
  IF \E i \in 1..Len(ts) : ts[i].slug = x
  THEN CHOOSE i \in 1..Len(ts) :
         ts[i].slug = x /\ \A j \in 1..(i-1) : ts[j].slug # x
  ELSE 0

get_topic_title(p, topic_slug) ==
  IF ~Truthy(topic_slug) THEN PyNone
  ELSE LET i == FirstWithSlug(p._topics, topic_slug)
       IN IF i = 0 THEN PyNone ELSE p._topics[i].title

Concat(ts) ==
  LET upto[i \in 0..Len(ts)] ==
        IF i = 0 THEN <<>> ELSE upto[i-1] \o ts[i].videos
  IN upto[Len(ts)]

\* get_entries(topic_slug): the parser afterwards, the outcome (a return of
\* an Option, or a raise) and the _make_video_entry calls made.
get_entries(p, d, topic_slug) ==
  IF Truthy(topic_slug)
  THEN LET i == FirstWithSlug(p._topics, topic_slug)
           pv == _parse_videos(p, d, <<TopicDict(i)>>)
       IN IF i = 0
          THEN [parser |-> p, built |-> <<>>,
                outcome |-> [kind |-> "return", val |-> RetNone]]
          ELSE IF pv.exc # <<>>
          THEN [parser |-> [p EXCEPT !._topics = pv._topics], built |-> pv.built,
                outcome |-> Raise(pv.exc[1])]
          ELSE [parser |-> [p EXCEPT !._topics = pv._topics], built |-> pv.built,
                outcome |-> [kind |-> "return",
                             val |-> Ret(pv._topics[i].videos)]]
  ELSE LET pv == _parse_videos(p, d, <<TopicsList>>)
       IN IF pv.exc # <<>>
          THEN [parser |-> [p EXCEPT !._topics = pv._topics], built |-> pv.built,
                outcome |-> Raise(pv.exc[1])]
          ELSE [parser |-> [p EXCEPT !._topics = pv._topics], built |-> pv.built,
                outcome |-> [kind |-> "return", val |-> Ret(Concat(pv._topics))]]

\* --------------------------------------------------- listing extractors
\* The jsonParser property read with cur the value of self._jsonParser: the
\* value of self._jsonParser afterwards, the downloads and constructions it
\* made, and the exception it raised (<<>> when it returned the parser).
\* A WwdcJsonParser object is truthy, so `not cur` holds only of None.
JsonParserRefetch(cur, d, oid) ==
  LET made == WwdcJsonParser(d, oid)
  IN IF made.kind = "raise"
     THEN [parser |-> <<>>, fetched |-> 1, built |-> 0, exc |-> <<made.exc>>]
     ELSE [parser |-> <<made.val>>, fetched |-> 1, built |-> 1, exc |-> <<>>]

jsonParser_property(cur, d, oid) ==
  IF cur = <<>>
  THEN LET made == WwdcJsonParser(d, oid)
       IN IF made.kind = "raise"
          THEN [parser |-> <<>>, fetched |-> 1, built |-> 0, exc |-> <<made.exc>>]
          ELSE [parser |-> <<made.val>>, fetched |-> 1, built |-> 1, exc |-> <<>>]
  ELSE [parser |-> cur, fetched |-> 0, built |-> 0, exc |-> <<>>]

\* InfoExtractor.playlist_result(entries, playlist_id, playlist_title)
playlist_result(entries, playlist_id, playlist_title) ==
  [kind |-> "playlist", id |-> playlist_id, title |-> playlist_title,
   entries |-> entries]

Category == "wwdc23"

\* The _make_video_entry calls of one request, added to the log.
Logged(log, built) ==
  [t \in DOMAIN log |->
     log[t] \o LET mine == SelectSeq(built, LAMBDA b : b.topic = t)
               IN [k \in 1..Len(mine) |-> mine[k].video]]

\* AppleWwdcTopicsIE._real_extract on a url whose topic group is `topic`.
\* playlist_title hands get_topic_title the bound method self.playlist_id.
TopicsRealExtract(topic) ==
  /\ ieKind = "AppleWwdcTopicsIE"
  /\ fetches < MaxFetches
  /\ LET a1 == jsonParser_property(jsonParser, data, constructed + 1)
     IN IF a1.exc # <<>>
        THEN /\ jsonParser' = a1.parser
             /\ fetches' = fetches + a1.fetched
             /\ constructed' = constructed + a1.built
             /\ result' = Raise(a1.exc[1])
             /\ UNCHANGED builderCalls
        ELSE LET ge == get_entries(a1.parser[1], data, topic)
             IN IF ge.outcome.kind = "raise"
                THEN /\ jsonParser' = <<ge.parser>>
                     /\ fetches' = fetches + a1.fetched
                     /\ constructed' = constructed + a1.built
                     /\ builderCalls' = Logged(builderCalls, ge.built)
                     /\ result' = ge.outcome
                ELSE LET playlist_id == topic
                         a2 == jsonParser_property(<<ge.parser>>, data,
                                                   constructed + a1.built + 1)
                     IN /\ jsonParser' = a2.parser
                        /\ fetches' = fetches + a1.fetched + a2.fetched
                        /\ constructed' = constructed + a1.built + a2.built
                        /\ builderCalls' = Logged(builderCalls, ge.built)
                        /\ result' =
                             IF a2.exc # <<>> THEN Raise(a2.exc[1])
                             ELSE playlist_result(
                                    ge.outcome.val, playlist_id,
                                    get_topic_title(a2.parser[1], PlaylistIdMethod))
  /\ UNCHANGED <<data, ieKind, harvestVars, resolverVars>>

\* AppleWwdcSessionsIE._real_extract: get_entries() with no topic slug.
SessionsRealExtract ==
  /\ ieKind = "AppleWwdcSessionsIE"
  /\ fetches < MaxFetches
  /\ LET a1 == jsonParser_property(jsonParser, data, constructed + 1)
     IN IF a1.exc # <<>>
        THEN /\ jsonParser' = a1.parser
             /\ result' = Raise(a1.exc[1])
             /\ fetches' = fetches + a1.fetched
             /\ constructed' = constructed + a1.built
             /\ UNCHANGED builderCalls
        ELSE LET ge == get_entries(a1.parser[1], data, PyNone)
             IN /\ jsonParser' = <<ge.parser>>
                /\ fetches' = fetches + a1.fetched
                /\ constructed' = constructed + a1.built
                /\ builderCalls' = Logged(builderCalls, ge.built)
                /\ result' =
                     IF ge.outcome.kind = "raise" THEN ge.outcome
                     ELSE playlist_result(ge.outcome.val, Category,
                                          <<Category, "sessions">>)
  /\ UNCHANGED <<data, ieKind, harvestVars, resolverVars>>

\* ------------------------------------------------------- link harvester
_BASE_URL == "https://developer.apple.com"

\* A string a pattern's group can capture, split at the end of its
\* scheme and host part: origin is "" for a relative reference.
Captures ==
  { [origin |-> o, rest |-> r]
    : o \in {_BASE_URL, ""},
      r \in {"/videos/play/wwdc2023/10036/", "/videos/play/wwdc2023/10044/"} }
  \cup { [origin |-> "https://example.com", rest |-> "/videos/play/wwdc2023/10036/"],
         [origin |-> "", rest |-> ""] }

NoneUrl == [origin |-> PyNone, rest |-> ""]

\* yt_dlp.utils.urljoin: None for an empty path, the path itself when it
\* starts with a scheme and host, else the path resolved against base.
urljoin(base, path) ==
  IF path.origin = "" /\ path.rest = "" THEN NoneUrl
  ELSE IF path.origin # "" THEN path
  ELSE [origin |-> base, rest |-> path.rest]

\* InfoExtractor.url_result(url)
url_result(url) == [_type |-> "url", url |-> url]

\* A mutation of fromkeys that keeps the last occurrence of each key.
fromkeys_last_wins(keys) ==
  LET kept[i \in 0..Len(keys)] ==
        IF i = 0 THEN <<>>
        ELSE Append(SelectSeq(kept[i-1], LAMBDA k : k # keys[i]), keys[i])
  IN kept[Len(keys)]

\* list(dict.fromkeys(keys)): a dict keeps each key at its first insertion.
fromkeys(keys) ==
  LET kept[i \in 0..Len(keys)] ==
        IF i = 0 THEN <<>>
        ELSE IF \E j \in 1..Len(kept[i-1]) : kept[i-1][j] = keys[i]
             THEN kept[i-1]
             ELSE Append(kept[i-1], keys[i])
  IN kept[Len(keys)]

\* findall is the sequence of the pattern's captures in the page, in order.
extract_with_regular_expression(findall) ==
  LET joined == [i \in 1..Len(findall) |-> urljoin(_BASE_URL, findall[i])]
      video_urls == fromkeys(joined)
  IN [i \in 1..Len(video_urls) |-> url_result(video_urls[i])]

\* AppleWwdcNewsIE._real_extract, up to the entries it hands playlist_result.
NewsRealExtract ==
  /\ ieKind = "AppleWwdcNewsIE"
  /\ harvested.none
  /\ harvested' = Ret(extract_with_regular_expression(webpage))
  /\ UNCHANGED <<catalogVars, webpage, resolverVars>>

\* ------------------------------------------------- single-video resolver
Absent == "<absent>"
StreamUrl == "https://devstreaming-cdn.apple.com/videos/cmaf.m3u8"

\* A stream-format descriptor: a dict with 'ext', and 'vcodec' and 'acodec'
\* when v and a are not Absent.
Descriptor(v, a) ==
  [k \in {"ext"} \cup (IF v = Absent THEN {} ELSE {"vcodec"})
                 \cup (IF a = Absent THEN {} ELSE {"acodec"}) |->
     IF k = "ext" THEN "mp4" ELSE IF k = "vcodec" THEN v ELSE a]

Descriptors ==
  { Descriptor(v, a) : v \in {Absent, "none", "avc1.64001f"},
                       a \in {Absent, "none", "mp4a.40.2"} }

\* dict.get(key)
Get(dict, key) == IF key \in DOMAIN dict THEN dict[key] ELSE PyNone

\* dict.update({'ext': 'm4a', 'acodec': 'aac'})
Update(format) ==
  [k \in DOMAIN format \cup {"ext", "acodec"} |->
     IF k = "ext" THEN "m4a" ELSE IF k = "acodec" THEN "aac" ELSE format[k]]

\* A mutation of the fix-up that drops the vcodec test.
FixUpAnyWithoutAcodec(format) ==
  IF "acodec" \notin DOMAIN format THEN Update(format) ELSE format

\* The body of `for format in formats` in AppleDeveloperIE._real_extract.
FixUp(format) ==
  IF Get(format, "vcodec") = "none" /\ "acodec" \notin DOMAIN format
  THEN Update(format)
  ELSE format

Unavailable ==
  [kind |-> "raise", exc |-> "ExtractorError", msg |-> "Video is unavailable",
   expected |-> TRUE]

\* A mutation that parses the manifest before it tests video_url.
ResolveParsingFirst(video_url, parsed, calls) ==
  IF ~Truthy(video_url)
  THEN [calls |-> Append(calls, video_url), outcome |-> Unavailable]
  ELSE [calls |-> Append(calls, video_url),
        outcome |-> [kind |-> "return",
                     formats |-> [i \in 1..Len(parsed) |-> FixUp(parsed[i])]]]

\* AppleDeveloperIE._real_extract from the og:video lookup on: video_url is
\* what _og_search_video_url returned, parsed the formats the manifest parser
\* returns when called, calls the manifest parser's calls so far.
Resolve(video_url, parsed, calls) ==
  IF ~Truthy(video_url)
  THEN [calls |-> calls, outcome |-> Unavailable]
  ELSE [calls |-> Append(calls, video_url),
        outcome |-> [kind |-> "return",
                     formats |-> [i \in 1..Len(parsed) |-> FixUp(parsed[i])]]]

VideoRealExtract ==
  /\ ieKind = "AppleDeveloperIE"
  /\ videoResult = NoResult
  /\ LET r == Resolve(og_video, m3u8, manifestCalls)
     IN /\ manifestCalls' = r.calls
        /\ videoResult' = r.outcome
  /\ UNCHANGED <<catalogVars, harvestVars, og_video, m3u8>>

\* ------------------------------------------------------- specifications
EmptyDocument == [events |-> <<>>, topics |-> <<>>, videos |-> <<>>]

CatalogInit(kinds, documents) ==
  /\ data \in documents
  /\ ieKind \in kinds
  /\ jsonParser = <<>>
  /\ fetches = 0
  /\ constructed = 0
  /\ builderCalls = [t \in 1..Len(data.topics) |-> <<>>]
  /\ result = NoResult

HarvestInit(pages) ==
  /\ webpage \in pages
  /\ harvested = RetNone

ResolverInit(urls, manifests) ==
  /\ og_video \in urls
  /\ m3u8 \in manifests
  /\ manifestCalls = <<>>
  /\ videoResult = NoResult

\* _AppleWwdcBaseIE.__init__ on a fresh listing extractor, before any request.
Init ==
  /\ CatalogInit({"AppleWwdcSessionsIE", "AppleWwdcTopicsIE"}, Documents)
  /\ HarvestInit({<<>>})
  /\ ResolverInit({PyNone}, {<<>>})

Next ==
  \/ \E topic \in SlugNames \cup {MissingSlug} : TopicsRealExtract(topic)
  \/ SessionsRealExtract

Spec == Init /\ [][Next]_vars

\* A news digest extractor on a page with up to MaxMatches captures.
InitHarvest ==
  /\ CatalogInit({"AppleWwdcNewsIE"}, {EmptyDocument})
  /\ HarvestInit(SeqsUpTo(Captures, MaxMatches))
  /\ ResolverInit({PyNone}, {<<>>})

NextHarvest == NewsRealExtract

SpecHarvest == InitHarvest /\ [][NextHarvest]_vars

\* A single-video extractor on a page with or without an og:video tag.
InitResolver ==
  /\ CatalogInit({"AppleDeveloperIE"}, {EmptyDocument})
  /\ HarvestInit({<<>>})
  /\ ResolverInit({PyNone, "", StreamUrl}, SeqsUpTo(Descriptors, MaxFormats))

NextResolver == VideoRealExtract

SpecResolver == InitResolver /\ [][NextResolver]_vars

\* ------------------------------------------------- notions of the claims
\* The active Event of a document: the event of maximum start time, the
\* earliest in the mapping when several share it.
ActiveEvent(d) ==
  LET es == d.events
      i == CHOOSE i \in 1..Len(es) :
             /\ \A j \in 1..Len(es) : es[j].startTime <= es[i].startTime
             /\ \A j \in 1..(i-1) : es[j].startTime < es[i].startTime
  IN es[i]

Ids(entries) == [i \in 1..Len(entries) |-> entries[i].id]

\* The ids of the raw videos of the active Event whose primary topic is
\* topic_id, in document order.
MatchingIds(d, topic_id) ==
  Ids(SelectSeq(d.videos, LAMBDA v : /\ v.eventId = ActiveEvent(d).key
                                     /\ v.primaryTopicID = topic_id))

Built == jsonParser # <<>>
Parser == jsonParser[1]

\* A topics listing has returned a playlist for a slug that a Topic has.
TopicListed ==
  /\ ieKind = "AppleWwdcTopicsIE"
  /\ result.kind = "playlist"
  /\ FirstWithSlug(Parser._topics, result.id) # 0

ListedTopic == FirstWithSlug(Parser._topics, result.id)

\* ------------------------------------------------------------ the claims
\* C1: after the Catalog Parser is constructed from a document with at least
\* one event, the active Event it holds has the identifier, the name and the
\* images base of the event of maximum start time (the earliest-iterated
\* among several), at whatever position that event is in the mapping.
C1_ActiveEventIsTheLatest ==
  Built =>
    Parser._event = [id |-> ActiveEvent(data).key,
                     name |-> ActiveEvent(data).name,
                     images_base |-> ActiveEvent(data).imagesPath]

\* C2: entries(slug) for a slug that a Topic has returns exactly one entry
\* per raw video of the active Event whose primary topic is that Topic, in
\* document order, and no entry for any other video.
C2_EntriesAreTheActiveEventsVideos ==
  TopicListed =>
    /\ ~result.entries.none
    /\ Ids(result.entries.val) =
         MatchingIds(data, Parser._topics[ListedTopic].id)

\* C3: the sessions listing, entries() without a slug, completes with the
\* concatenation of all topics' videos in topic order, every topic
\* populated, for every document, one with no topics included.
C3_SessionsListingCompletes ==
  (ieKind = "AppleWwdcSessionsIE" /\ Built /\ result # NoResult) =>
    /\ result.kind = "playlist"
    /\ ~result.entries.none
    /\ result.entries.val = Concat(Parser._topics)
    /\ \A t \in 1..Len(Parser._topics) :
         Ids(Parser._topics[t].videos) =
           Ids(_get_videos(Parser, data, Parser._event.id,
                           Parser._topics[t].id, Parser._topics[t].title))

\* C4: a topics listing for a slug that a Topic has returns a playlist whose
\* identifier is the slug, whose members are the result of entries(slug) and
\* whose title is that Topic's display title, never absent.
C4_TopicPlaylistIsTitled ==
  TopicListed =>
    /\ result.entries = Ret(Parser._topics[ListedTopic].videos)
    /\ result.title = Parser._topics[ListedTopic].title
    /\ result.title # PyNone

\* C6: entries(slug) for a non-empty slug returns absent exactly when no
\* Topic has the slug; when a Topic has it and no video of the active Event
\* has that Topic as primary topic the result is the empty sequence; and the
\* call raises in neither case.
C6_AbsentOnlyWithoutTopic ==
  /\ (ieKind = "AppleWwdcTopicsIE" /\ result.kind = "raise") => ~Built
  /\ (ieKind = "AppleWwdcTopicsIE" /\ result.kind = "playlist") =>
       /\ result.entries.none <=> FirstWithSlug(Parser._topics, result.id) = 0
       /\ ( /\ FirstWithSlug(Parser._topics, result.id) # 0
            /\ MatchingIds(data, Parser._topics[ListedTopic].id) = <<>> )
          => result.entries = Ret(<<>>)

\* C9: a Topic with at least one matching video is populated exactly once:
\* after any number of requests for it the Entry Builder was invoked once
\* per matching video and no more, the Topic's list holds those videos
\* without duplicates, and the request returned that same sequence.
C9_TopicPopulatedExactlyOnce ==
  ( /\ TopicListed
    /\ MatchingIds(data, Parser._topics[ListedTopic].id) # <<>> )
  => LET matching == MatchingIds(data, Parser._topics[ListedTopic].id)
     IN /\ builderCalls[ListedTopic] = matching
        /\ Ids(Parser._topics[ListedTopic].videos) = matching
        /\ result.entries = Ret(Parser._topics[ListedTopic].videos)

\* C10 as stated: within one listing extractor instance the feed is fetched
\* at most once and a Catalog Parser constructed at most once.
C10_FeedFetchedAtMostOnce ==
  fetches <= 1 /\ constructed <= 1

\* C10 as amended: at most one Catalog Parser is ever constructed; an access
\* that finds a parser returns that same parser without another fetch, and
\* only an access that finds none downloads the feed.
C10_ParserBuiltOnceThenReused ==
  /\ [](constructed <= 1)
  /\ [][ /\ Built =>
              /\ fetches' = fetches
              /\ constructed' = constructed
              /\ jsonParser' # <<>>
              /\ jsonParser'[1].oid = Parser.oid
         /\ ~Built => fetches' = fetches + 1 ]_vars

\* A topics listing has completed on one fetch: its entries lookup built the
\* parser and its title lookup was served by the parser already there.
C10_Witness ==
  /\ ieKind = "AppleWwdcTopicsIE"
  /\ result.kind = "playlist"
  /\ Built
  /\ fetches = 1
  /\ constructed = 1

\* The resolved url of each capture of the page, in page order.
ResolvedUrls == [i \in 1..Len(webpage) |-> urljoin(_BASE_URL, webpage[i])]

FirstOccurrence(url) ==
  CHOOSE i \in 1..Len(webpage) :
    ResolvedUrls[i] = url /\ \A j \in 1..(i-1) : ResolvedUrls[j] # url

\* C5: the Link Harvester returns exactly one pending-resolution reference
\* per distinct resolved url among the matches, ordered by each url's first
\* occurrence in the page: m distinct urls give m entries, not re-sorted.
C5_OneEntryPerUrlInFirstSeenOrder ==
  ~harvested.none =>
    LET out == harvested.val
        urls == { ResolvedUrls[i] : i \in 1..Len(webpage) }
    IN /\ Len(out) = Cardinality(urls)
       /\ { out[i].url : i \in 1..Len(out) } = urls
       /\ \A i \in 1..Len(out) : out[i] = [_type |-> "url", url |-> out[i].url]
       /\ \A i, j \in 1..Len(out) :
            i < j => FirstOccurrence(out[i].url) < FirstOccurrence(out[j].url)

\* A page on which one url occurs twice, once relative and once absolute,
\* around a different url, was harvested into two entries.
C5_Witness ==
  /\ ~harvested.none
  /\ Len(webpage) = 3
  /\ webpage[1] # webpage[3]
  /\ ResolvedUrls[1] = ResolvedUrls[3]
  /\ ResolvedUrls[2] # ResolvedUrls[1]
  /\ Len(harvested.val) = 2
  /\ harvested.val[1].url = ResolvedUrls[1]

\* C7: when the page has no og:video stream url the request ends with the
\* expected 'Video is unavailable' error, the manifest parser not invoked
\* and no entry returned; the manifest parser is invoked only with a
\* non-empty stream url that was found.
C7_UnavailableBeforeAnyParsing ==
  /\ (videoResult # NoResult /\ og_video \in {PyNone, ""}) =>
       videoResult = Unavailable /\ manifestCalls = <<>>
  /\ videoResult.kind = "raise" => manifestCalls = <<>>
  /\ \A i \in 1..Len(manifestCalls) :
       manifestCalls[i] = og_video /\ manifestCalls[i] \notin {PyNone, ""}
  /\ videoResult.kind = "return" => manifestCalls = <<og_video>>

\* A page without an og:video tag was refused, nothing parsed.
C7_Witness ==
  /\ og_video = PyNone
  /\ videoResult.kind = "raise"
  /\ videoResult.msg = "Video is unavailable"
  /\ manifestCalls = <<>>

\* No video codec reported and no audio codec field.
AudioOnlyUndetected(format) ==
  /\ "vcodec" \in DOMAIN format
  /\ format["vcodec"] = "none"
  /\ "acodec" \notin DOMAIN format

\* C8: the fix-up changes a descriptor if and only if it reports no video
\* codec and has no audio codec field; such a descriptor gets container
\* 'm4a' and audio codec 'aac', its other fields kept; every other one is
\* left unchanged, and none is added or removed.
C8_FixUpOnlyUndetectedAudio ==
  videoResult.kind = "return" =>
    /\ Len(videoResult.formats) = Len(m3u8)
    /\ \A i \in 1..Len(m3u8) :
         LET before == m3u8[i]
             after == videoResult.formats[i]
         IN /\ after # before <=> AudioOnlyUndetected(before)
            /\ AudioOnlyUndetected(before) =>
                 /\ DOMAIN after = DOMAIN before \cup {"acodec"}
                 /\ after["ext"] = "m4a"
                 /\ after["acodec"] = "aac"
                 /\ \A k \in DOMAIN before \ {"ext"} : after[k] = before[k]

\* A manifest with an undetected audio-only rendition and a video rendition
\* without audio codec was resolved: the first fixed up, the second kept.
C8_Witness ==
  /\ videoResult.kind = "return"
  /\ Len(m3u8) = 2
  /\ AudioOnlyUndetected(m3u8[1])
  /\ videoResult.formats[1] = Update(m3u8[1])
  /\ m3u8[2] = Descriptor("avc1.64001f", Absent)
  /\ videoResult.formats[2] = m3u8[2]

\* ------------------------------------------- what the code does instead
\* The ids of the raw videos whose eventId is the id the parser holds.
HeldEventIds(d, topic_id) ==
  Ids(SelectSeq(d.videos, LAMBDA v : /\ v.eventId = Parser._event.id
                                     /\ v.primaryTopicID = topic_id))

\* The parser's event has the name and images base of the active Event and
\* the key of the event iterated last.
HeldEventMixesTwoEvents ==
  Built =>
    /\ Parser._event.name = ActiveEvent(data).name
    /\ Parser._event.images_base = ActiveEvent(data).imagesPath
    /\ Parser._event.id = data.events[Len(data.events)].key

\* entries(slug) selects, populates once and returns the videos of the
\* event whose key the parser holds.
EntriesFollowHeldEventId ==
  TopicListed =>
    LET held == HeldEventIds(data, Parser._topics[ListedTopic].id)
    IN /\ result.entries = Ret(Parser._topics[ListedTopic].videos)
       /\ Ids(result.entries.val) = held
       /\ builderCalls[ListedTopic] = held

\* Every sessions listing on a constructed parser raises AttributeError and
\* populates nothing; every topics playlist is returned without a title.
ListingsAsCoded ==
  /\ (ieKind = "AppleWwdcSessionsIE" /\ Built /\ result # NoResult) =>
       /\ result = Raise("AttributeError")
       /\ \A t \in 1..Len(Parser._topics) : Parser._topics[t].videos = <<>>
  /\ (ieKind = "AppleWwdcTopicsIE" /\ result.kind = "playlist") =>
       result.title = PyNone
====
